---- MODULE Spec2Model ----
(***************************************************************************)
(* Model of src/server.js: the in-memory price cache (priceCache), the     *)
(* two upstream adapters (fetchCoinGeckoPrices, fetchOrbePrice), the       *)
(* refresh cycle (updatePriceCache), the scheduler (startAutoUpdate) and   *)
(* the HTTP handlers that read the cache or force a refresh.               *)
(*                                                                         *)
(* Node.js runs one callback at a time.  A callback (timer, I/O            *)
(* completion, HTTP request) runs to its first await; the continuations    *)
(* of settled promises are microtasks, and the microtask queue is drained  *)
(* before the next callback starts.  The model keeps the microtask queue   *)
(* explicitly (microq): callbacks are enabled only when it is empty.       *)
(*                                                                         *)
(* Prices are integers (a minor unit of USD); a JavaScript value is a      *)
(* tagged record so that undefined, null, NaN, numbers and strings stay    *)
(* apart, and a string is a sequence of one-character strings so that      *)
(* parseFloat and the numeric coercion of > are computed, not assumed.     *)
(***************************************************************************)
EXTENDS Integers, Sequences, FiniteSets, TLC

\* ------------------------------------------------------------------ bounds
\* Date.now() ranges over 1..MaxTime.
MaxTime == 2

\* Number of calls of updatePriceCache (startup, ticks, forced refreshes).
MaxTriggers == 3

\* Number of refresh cycles that may be past the guard at once.
MaxInFlight == 2

\* ------------------------------------------------------- JavaScript values
Undefined == [t |-> "undefined", n |-> 0, s |-> <<>>]

Null == [t |-> "null", n |-> 0, s |-> <<>>]

NaN == [t |-> "nan", n |-> 0, s |-> <<>>]

Num(n) == [t |-> "num", n |-> n, s |-> <<>>]

Str(s) == [t |-> "str", n |-> 0, s |-> s]

Digits == <<"0", "1", "2", "3", "4", "5", "6", "7", "8", "9">>

IsDigit(c) == \E i \in 1..10 : Digits[i] = c

DigitVal(c) == (CHOOSE i \in 1..10 : Digits[i] = c) - 1

\* Value of the run of digits that starts at position i of s, given the
\* value acc of the digits already read.
RECURSIVE DigitRun(_, _, _)
DigitRun(s, i, acc) ==
  IF i > Len(s) \/ ~IsDigit(s[i]) THEN acc
  ELSE DigitRun(s, i + 1, acc * 10 + DigitVal(s[i]))

\* Index of the first character of s at or after i that is not a blank.
RECURSIVE SkipBlanks(_, _)
SkipBlanks(s, i) ==
  IF i <= Len(s) /\ s[i] = " " THEN SkipBlanks(s, i + 1) ELSE i

\* parseFloat on a string: leading blanks, an optional sign, then the
\* longest run of digits; NaN when there is no digit; what follows the
\* digits is ignored.
ParseFloatStr(s) ==
  LET i == SkipBlanks(s, 1)
      signed == i <= Len(s) /\ s[i] \in {"-", "+"}
      j == IF signed THEN i + 1 ELSE i
  IN IF j > Len(s) \/ ~IsDigit(s[j]) THEN NaN
     ELSE IF signed /\ s[i] = "-" THEN Num(0 - DigitRun(s, j, 0))
     ELSE Num(DigitRun(s, j, 0))

\* parseFloat(v): v is converted to a string first, so a number parses to
\* itself and undefined, null and NaN parse to NaN.
ParseFloat(v) ==
  IF v.t = "str" THEN ParseFloatStr(v.s)
  ELSE IF v.t = "num" THEN v
  ELSE NaN

\* Number(s) for a string: the whole trimmed string must be a numeral; the
\* empty string is 0.
ToNumberStr(s) ==
  LET i == SkipBlanks(s, 1)
      signed == i <= Len(s) /\ s[i] \in {"-", "+"}
      j == IF signed THEN i + 1 ELSE i
      AllDigits == \A k \in j..Len(s) : IsDigit(s[k])
  IN IF i > Len(s) THEN Num(0)
     ELSE IF j > Len(s) \/ ~AllDigits THEN NaN
     ELSE IF signed /\ s[i] = "-" THEN Num(0 - DigitRun(s, j, 0))
     ELSE Num(DigitRun(s, j, 0))

\* The numeric coercion applied by the operators > and -.
ToNumber(v) ==
  IF v.t = "num" THEN v
  ELSE IF v.t = "null" THEN Num(0)
  ELSE IF v.t = "str" THEN ToNumberStr(v.s)
  ELSE NaN

\* Truthiness: undefined, null, NaN, 0 and "" are falsy.
Truthy(v) ==
  IF v.t = "num" THEN v.n # 0
  ELSE IF v.t = "str" THEN v.s # <<>>
  ELSE FALSE

\* a > b: false as soon as one side coerces to NaN.
JsGt(a, b) ==
  LET x == ToNumber(a)
      y == ToNumber(b)
  IN x.t = "num" /\ y.t = "num" /\ x.n > y.n

\* a - b
JsSub(a, b) ==
  LET x == ToNumber(a)
      y == ToNumber(b)
  IN IF x.t = "num" /\ y.t = "num" THEN Num(x.n - y.n) ELSE NaN

\* a || b
JsOr(a, b) == IF Truthy(a) THEN a ELSE b

\* ------------------------------------------------------------- constants
STABLECOINS == {"USDT", "USDC", "BUSD", "DAI"}

COINGECKO_IDS ==
  [sym \in {"BTC", "ETH", "BNB", "SOL"} |->
     CASE sym = "BTC" -> "bitcoin"
       [] sym = "ETH" -> "ethereum"
       [] sym = "BNB" -> "binancecoin"
       [] sym = "SOL" -> "solana"]

\* The empty object {}.
EmptyObj == [sym \in {} |-> Null]

\* An assignment of source in place of Object.assign(target, source).
ObjectAssignReplace(target, source) == source

\* Object.assign(target, source): every key of source is written to target,
\* replacing the value target had for it.
ObjectAssign(target, source) ==
  [sym \in (DOMAIN target) \cup (DOMAIN source) |->
     IF sym \in DOMAIN source THEN source[sym] ELSE target[sym]]

\* --------------------------------------------------------- upstream replies
\* What one upstream HTTP call can do: the fetch rejects (timeout of
\* AbortSignal.timeout(4000), network error), it answers with a non-2xx
\* status, its body is not JSON, or its body is the JSON value body.
Reply(kind, body) == [kind |-> kind, body |-> body]

\* One entry data[id] of the CoinGecko body.
CgEntry(usd, chg) == [obj |-> TRUE, usd |-> usd, usd_24h_change |-> chg]

CgNullEntry == [obj |-> FALSE, usd |-> Undefined, usd_24h_change |-> Undefined]

CgBody(ent) == [isNull |-> FALSE, ent |-> ent]

CgNullBody == [isNull |-> TRUE, ent |-> [id \in {} |-> CgNullEntry]]

CoinGeckoBodies ==
  { CgBody([id \in {"bitcoin", "ethereum", "binancecoin", "solana"} |->
              CASE id = "bitcoin" -> CgEntry(Num(7), Num(0 - 1))
                [] id = "ethereum" -> CgEntry(Num(3), Undefined)
                [] id = "binancecoin" -> CgEntry(Num(0), Num(2))
                [] id = "solana" -> CgNullEntry]),
    CgBody([id \in {"bitcoin", "ethereum", "binancecoin", "solana"} |->
              CASE id = "bitcoin" -> CgEntry(Num(0), Num(1))
                [] id = "ethereum" -> CgEntry(Num(0 - 1), Num(1))
                [] id = "binancecoin" -> CgNullEntry
                [] id = "solana" -> CgEntry(Str(<<"a", "b">>), Num(1))]),
    CgBody([id \in {"bitcoin", "solana"} |->
              IF id = "bitcoin" THEN CgEntry(Undefined, Num(1))
              ELSE CgEntry(Null, Num(1))]),
    CgBody([id \in {} |-> CgNullEntry]),
    CgNullBody }

CoinGeckoReplies ==
  { Reply("reject", CgNullBody), Reply("status", CgNullBody),
    Reply("badjson", CgNullBody) }
  \cup { Reply("json", b) : b \in CoinGeckoBodies }

\* The DexScreener body: data.pair, data.pair.priceUsd and
\* data.pair.priceChange?.h24.
DexPair(priceUsd, hasChange, h24) ==
  [obj |-> TRUE, priceUsd |-> priceUsd,
   priceChange |-> [obj |-> hasChange, h24 |-> h24]]

DexNoPair ==
  [obj |-> FALSE, priceUsd |-> Undefined,
   priceChange |-> [obj |-> FALSE, h24 |-> Undefined]]

DexBody(pair) == [isNull |-> FALSE, pair |-> pair]

DexNullBody == [isNull |-> TRUE, pair |-> DexNoPair]

DexBodies ==
  { DexBody(DexPair(Str(<<"1", "2">>), TRUE, Str(<<"-", "2", "x">>))),
    DexBody(DexPair(Str(<<"0">>), FALSE, Undefined)),
    DexBody(DexPair(Str(<<>>), TRUE, Num(1))),
    DexBody(DexPair(Num(0), TRUE, Num(1))),
    DexBody(DexPair(Undefined, TRUE, Num(1))),
    DexBody(DexNoPair),
    DexNullBody }

DexReplies ==
  { Reply("reject", DexNullBody), Reply("status", DexNullBody),
    Reply("badjson", DexNullBody) }
  \cup { Reply("json", b) : b \in DexBodies }

\* ------------------------------------------------------------- price records
PriceRecord(price, change24h, source, updatedAt) ==
  [price |-> price, change24h |-> change24h, source |-> source,
   updatedAt |-> updatedAt]

\* The loop of fetchCoinGeckoPrices over Object.entries(COINGECKO_IDS): a
\* symbol is kept when data[id] is truthy and data[id].usd > 0.
CoinGeckoKept(body) ==
  { sym \in DOMAIN COINGECKO_IDS :
      /\ COINGECKO_IDS[sym] \in DOMAIN body.ent
      /\ body.ent[COINGECKO_IDS[sym]].obj
      /\ JsGt(body.ent[COINGECKO_IDS[sym]].usd, Num(0)) }

CoinGeckoPrices(body, t) ==
  [sym \in CoinGeckoKept(body) |->
     PriceRecord(body.ent[COINGECKO_IDS[sym]].usd,
                 JsOr(body.ent[COINGECKO_IDS[sym]].usd_24h_change, Num(0)),
                 "coingecko", t)]

\* fetchCoinGeckoPrices, from the reply of its fetch to its return value at
\* time t.  A rejected fetch, a body that is not JSON and a body that is the
\* JSON value null (data[id] then throws) all end in the catch block.
fetchCoinGeckoPrices(reply, t) ==
  IF reply.kind = "reject" THEN EmptyObj
  ELSE IF reply.kind = "status" THEN EmptyObj
  ELSE IF reply.kind = "badjson" THEN EmptyObj
  ELSE IF reply.body.isNull THEN EmptyObj
  ELSE CoinGeckoPrices(reply.body, t)

\* The return value of fetchOrbePrice is null or an object with the one key
\* ORBE.
OrbeNull == [isNull |-> TRUE, obj |-> EmptyObj]

OrbeObj(rec) == [isNull |-> FALSE, obj |-> [sym \in {"ORBE"} |-> rec]]

\* The test data.pair && data.pair.priceUsd of fetchOrbePrice.
OrbeHasPrice(body) == body.pair.obj /\ Truthy(body.pair.priceUsd)

\* data.pair.priceChange?.h24
OrbeH24(body) ==
  IF body.pair.priceChange.obj THEN body.pair.priceChange.h24 ELSE Undefined

\* fetchOrbePrice, from the reply of its fetch to its return value at time t.
fetchOrbePrice(reply, t) ==
  IF reply.kind = "reject" THEN OrbeNull
  ELSE IF reply.kind = "status" THEN OrbeNull
  ELSE IF reply.kind = "badjson" THEN OrbeNull
  ELSE IF reply.body.isNull THEN OrbeNull
  ELSE IF OrbeHasPrice(reply.body)
       THEN OrbeObj(PriceRecord(ParseFloat(reply.body.pair.priceUsd),
                                ParseFloat(JsOr(OrbeH24(reply.body), Num(0))),
                                "dexscreener", t))
       ELSE OrbeNull

\* An upstream call failed: it produced no JSON object to read prices from.
ReplyFailed(reply) == reply.kind # "json" \/ reply.body.isNull

\* A statement of the adapter's try block throws on this reply: the fetch
\* rejects, response.json() rejects, or the body is null and reading a
\* property of it throws a TypeError.
AdapterThrows(reply) ==
  reply.kind \in {"reject", "badjson"}
    \/ (reply.kind = "json" /\ reply.body.isNull)

\* fetchCoinGeckoPrices without its catch block.
CoinGeckoOutcomeNoCatch(reply, t) ==
  [done |-> TRUE, raised |-> AdapterThrows(reply),
   failed |-> ReplyFailed(reply), res |-> fetchCoinGeckoPrices(reply, t)]

\* How the promise of fetchCoinGeckoPrices settles: the whole body is inside
\* try/catch, so it never rejects (raised) and fulfils with the returned map.
CoinGeckoOutcome(reply, t) ==
  [done |-> TRUE, raised |-> FALSE,
   failed |-> ReplyFailed(reply), res |-> fetchCoinGeckoPrices(reply, t)]

\* How the promise of fetchOrbePrice settles: never rejected, fulfilled with
\* null or the object of the ORBE record.
OrbeOutcome(reply, t) ==
  [done |-> TRUE, raised |-> FALSE,
   failed |-> ReplyFailed(reply), res |-> fetchOrbePrice(reply, t)]

\* -------------------------------------------------------------------- state
VARIABLES
  priceCache,  \* the cache object: data, lastUpdate, isUpdating
  now,         \* Date.now()
  sched,       \* startAutoUpdate: "boot", "starting" (awaiting the first
               \* refresh) or "interval" (setInterval is armed)
  cycles,      \* the calls of updatePriceCache suspended at await Promise.all
  microq,      \* the microtask queue: continuations of settled promises
  triggers,    \* number of calls of updatePriceCache made so far
  ev,          \* the last thing that happened, with the response it sent
  published,   \* the last cycle that assigned priceCache.data: when,
               \* which of its upstream calls had failed, and what it held
  nStarted     \* number of refresh cycles that passed the guard and
               \* suspended at await Promise.all

vars ==
  <<priceCache, now, sched, cycles, microq, triggers, ev, published, nStarted>>

\* ------------------------------------------------------- updatePriceCache
\* The forEach over STABLECOINS that fills newData at time t.
FixedPrices(t) ==
  [sym \in STABLECOINS |-> PriceRecord(Num(1), Num(0), "fixed", t)]

\* UpdateEnter without the isUpdating test.
UpdateEnterNoGuard(cache, throws) ==
  IF throws
  THEN [cache |-> [cache EXCEPT !.isUpdating = FALSE],
        started |-> FALSE, threw |-> FALSE]
  ELSE [cache |-> [cache EXCEPT !.isUpdating = TRUE],
        started |-> TRUE, threw |-> FALSE]

\* UpdateEnter with the isUpdating test inside the try block, so that the
\* finally block also runs on the early return.
UpdateEnterGuardInTry(cache, throws) ==
  IF cache.isUpdating \/ throws
  THEN [cache |-> [cache EXCEPT !.isUpdating = FALSE],
        started |-> FALSE, threw |-> FALSE]
  ELSE [cache |-> [cache EXCEPT !.isUpdating = TRUE],
        started |-> TRUE, threw |-> FALSE]

\* UpdateEnter without the assignment priceCache.isUpdating = true.
UpdateEnterNoFlag(cache, throws) ==
  IF cache.isUpdating
  THEN [cache |-> cache, started |-> FALSE, threw |-> FALSE]
  ELSE [cache |-> [cache EXCEPT !.isUpdating = FALSE],
        started |-> \lnot throws, threw |-> FALSE]

\* updatePriceCache from its call to its first await.  throws says that a
\* statement of the try block before the await throws; no statement there
\* is expected to, the input exercises the catch and finally blocks.  The result is the
\* cache when the function suspends or returns, whether it suspended at
\* await Promise.all (started), and whether its promise rejected (threw).
UpdateEnter(cache, throws) ==
  IF cache.isUpdating
  THEN [cache |-> cache, started |-> FALSE, threw |-> FALSE]
  ELSE IF throws
  THEN [cache |-> [cache EXCEPT !.isUpdating = FALSE],
        started |-> FALSE, threw |-> FALSE]
  ELSE [cache |-> [cache EXCEPT !.isUpdating = TRUE],
        started |-> TRUE, threw |-> FALSE]

\* A merge of the adapter that returned first only, as Promise.race in place
\* of Promise.all would give.
MergeResultsFirstOnly(c) ==
  IF c.first = "cg" THEN ObjectAssign(c.newData, c.cg.res)
  ELSE ObjectAssign(c.newData, c.orbe.res.obj)

\* The two Object.assign of the merge, on the suspended call c.
MergeResults(c) ==
  LET withCg == ObjectAssign(c.newData, c.cg.res)
  IN IF c.orbe.res.isNull THEN withCg
     ELSE ObjectAssign(withCg, c.orbe.res.obj)

\* Object.assign(priceCache.data, newData) in place of the assignment.
PublishInto(cache, newData, t) ==
  [cache EXCEPT !.data = ObjectAssign(cache.data, newData),
                !.lastUpdate = Num(t)]

\* lastUpdate set only when an adapter contributed a record.
PublishIfFetched(cache, newData, t) ==
  [cache EXCEPT !.data = newData,
                !.lastUpdate = IF DOMAIN newData = STABLECOINS THEN @
                               ELSE Num(t)]

\* priceCache.data = newData; priceCache.lastUpdate = Date.now()
Publish(cache, newData, t) ==
  [cache EXCEPT !.data = newData, !.lastUpdate = Num(t)]

\* UpdateFinish with the reset of isUpdating at the end of the try block and
\* no catch or finally block.
UpdateFinishNoFinally(cache, c, throws, t) ==
  IF throws = "merge" THEN [cache |-> cache, threw |-> TRUE]
  ELSE IF throws = "log"
  THEN [cache |-> Publish(cache, MergeResults(c), t), threw |-> TRUE]
  ELSE [cache |-> [Publish(cache, MergeResults(c), t)
                     EXCEPT !.isUpdating = FALSE],
        threw |-> FALSE]

\* UpdateFinish with the statement that throws for "log" placed between the
\* assignment of priceCache.data and the assignment of lastUpdate.
UpdateFinishLogBetween(cache, c, throws, t) ==
  LET tried == IF throws = "merge" THEN cache
               ELSE IF throws = "log"
               THEN [cache EXCEPT !.data = MergeResults(c)]
               ELSE Publish(cache, MergeResults(c), t)
  IN [cache |-> [tried EXCEPT !.isUpdating = FALSE], threw |-> FALSE]

\* UpdateFinish with the assignment of lastUpdate in the finally block.
UpdateFinishStampInFinally(cache, c, throws, t) ==
  LET tried == IF throws = "merge" THEN cache
               ELSE Publish(cache, MergeResults(c), t)
  IN [cache |-> [tried EXCEPT !.isUpdating = FALSE, !.lastUpdate = Num(t)],
      threw |-> FALSE]

\* updatePriceCache from the resumption after await Promise.all to its
\* return.  throws is "none", "merge" (a statement before the assignment of
\* priceCache.data throws) or "log" (a statement after the assignment of
\* priceCache.lastUpdate throws).  The catch block logs, the finally block
\* clears isUpdating.
UpdateFinish(cache, c, throws, t) ==
  LET tried == IF throws = "merge" THEN cache
               ELSE Publish(cache, MergeResults(c), t)
  IN [cache |-> [tried EXCEPT !.isUpdating = FALSE], threw |-> FALSE]

\* ----------------------------------------------------------------- tasks
NoCycles == [id \in {} |-> Null]

\* The call suspended at await Promise.all; caller, busy, seen and
\* seenUpdate remember who called, and the flag, the snapshot and the
\* lastUpdate the caller found.
NewCycle(caller, cache, t) ==
  [caller |-> caller, busy |-> cache.isUpdating, seen |-> cache.data,
   seenUpdate |-> cache.lastUpdate,
   startTime |-> t, newData |-> FixedPrices(t), first |-> "none",
   cg |-> [done |-> FALSE, raised |-> FALSE, failed |-> FALSE,
           res |-> EmptyObj],
   orbe |-> [done |-> FALSE, raised |-> FALSE, failed |-> FALSE,
             res |-> OrbeNull]]

\* What the suspended call c holds: its newData and the adapters' results.
Held(c) ==
  [newData |-> c.newData, cg |-> [res |-> c.cg.res],
   orbe |-> [res |-> c.orbe.res]]

\* The continuation of the caller after await updatePriceCache(); cycle and
\* cthrows remember the cycle the caller waited for, if it waited for one.
ResumeTask(caller, cache, started, threw) ==
  [k |-> "resume", id |-> 0, caller |-> caller, busy |-> cache.isUpdating,
   seen |-> cache.data, started |-> started, threw |-> threw,
   cycle |-> NoCycles, cthrows |-> "none"]

\* The continuation of updatePriceCache after await Promise.all.
JoinTask(id) ==
  [k |-> "join", id |-> id, caller |-> "", busy |-> FALSE,
   seen |-> EmptyObj, started |-> TRUE, threw |-> FALSE,
   cycle |-> NoCycles, cthrows |-> "none"]

\* The counters of calls and of cycles stop counting at MaxTriggers.
Bump(n) == IF n < MaxTriggers THEN n + 1 ELSE n

\* A call may still be counted.
Countable == triggers < MaxTriggers

FreeId == CHOOSE id \in 1..(MaxInFlight + 1) : id \notin DOMAIN cycles

\* A call of updatePriceCache by caller, up to its first await or its return.
Call(caller, throws) ==
  LET r == UpdateEnter(priceCache, throws)
  IN /\ microq = <<>>
     /\ Cardinality(DOMAIN cycles) < MaxInFlight
     /\ triggers' = Bump(triggers)
     /\ nStarted' = IF r.started THEN Bump(nStarted) ELSE nStarted
     /\ priceCache' = r.cache
     /\ IF r.started
        THEN /\ cycles' = [id \in (DOMAIN cycles) \cup {FreeId} |->
                             IF id = FreeId
                             THEN NewCycle(caller, priceCache, now)
                             ELSE cycles[id]]
             /\ microq' = microq
        ELSE /\ cycles' = cycles
             /\ microq' = <<ResumeTask(caller, priceCache, FALSE, r.threw)>>
     /\ ev' = [op |-> "call", caller |-> caller, busy |-> priceCache.isUpdating,
               throws |-> throws, started |-> r.started,
               before |-> priceCache]
     /\ UNCHANGED <<now, published>>

\* app.listen callback: startAutoUpdate calls updatePriceCache and awaits it.
Listen ==
  /\ sched = "boot"
  /\ Countable
  /\ sched' = "starting"
  /\ \E throws \in BOOLEAN : Call("startup", throws)

\* The setInterval callback.
IntervalTick ==
  /\ sched = "interval"
  /\ Countable
  /\ sched' = sched
  /\ \E throws \in BOOLEAN : Call("tick", throws)

\* POST /api/prices/refresh, up to await updatePriceCache().
PostRefresh ==
  /\ sched # "boot"
  /\ Countable
  /\ sched' = sched
  /\ \E throws \in BOOLEAN : Call("post", throws)

\* Promise.race or Promise.any in place of Promise.all: settled as soon as
\* one adapter has returned.
SettledAny(c) == c.cg.done \/ c.orbe.done

\* Promise.all rejects as soon as one of its promises rejects.
Rejected(c) == c.cg.raised \/ c.orbe.raised

\* Promise.all settles once both adapters have returned, or one has raised.
Settled(c) == (c.cg.done /\ c.orbe.done) \/ Rejected(c)

\* The fetch of fetchCoinGeckoPrices of cycle id settles with reply, and the
\* adapter returns.
CoinGeckoSettles(id, reply) ==
  /\ microq = <<>>
  /\ id \in DOMAIN cycles
  /\ ~cycles[id].cg.done
  /\ LET c == [cycles[id] EXCEPT
                 !.cg = CoinGeckoOutcome(reply, now),
                 !.first = IF @ = "none" THEN "cg" ELSE @]
     IN /\ cycles' = [cycles EXCEPT ![id] = c]
        /\ microq' = IF Settled(c) THEN <<JoinTask(id)>> ELSE microq
  /\ ev' = [op |-> "settle", adapter |-> "cg", id |-> id]
  /\ UNCHANGED <<priceCache, now, sched, triggers, published, nStarted>>

\* The fetch of fetchOrbePrice of cycle id settles with reply, and the
\* adapter returns.
OrbeSettles(id, reply) ==
  /\ microq = <<>>
  /\ id \in DOMAIN cycles
  /\ ~cycles[id].orbe.done
  /\ LET c == [cycles[id] EXCEPT
                 !.orbe = OrbeOutcome(reply, now),
                 !.first = IF @ = "none" THEN "orbe" ELSE @]
     IN /\ cycles' = [cycles EXCEPT ![id] = c]
        /\ microq' = IF Settled(c) THEN <<JoinTask(id)>> ELSE microq
  /\ ev' = [op |-> "settle", adapter |-> "orbe", id |-> id]
  /\ UNCHANGED <<priceCache, now, sched, triggers, published, nStarted>>

\* Microtask: updatePriceCache resumes after await Promise.all, merges,
\* publishes and returns; its caller's continuation is queued.  When
\* Promise.all rejected, the await throws and nothing is merged.
Join(thrown) ==
  /\ microq # <<>>
  /\ Head(microq).k = "join"
  /\ LET id == Head(microq).id
         c == cycles[id]
         throws == IF Rejected(c) THEN "merge" ELSE thrown
         r == UpdateFinish(priceCache, c, throws, now)
     IN /\ priceCache' = r.cache
        /\ cycles' = [i \in (DOMAIN cycles) \ {id} |-> cycles[i]]
        /\ microq' = Append(Tail(microq),
                            [ResumeTask(c.caller, priceCache, TRUE, r.threw)
                               EXCEPT !.busy = c.busy, !.seen = c.seen,
                                      !.cycle = c, !.cthrows = throws])
        /\ ev' = [op |-> "finish", caller |-> c.caller, throws |-> throws,
                  aborted |-> Rejected(c), seen |-> c.seen,
                  seenUpdate |-> c.seenUpdate,
                  at |-> now, first |-> c.first, fixed |-> c.newData,
                  cg |-> c.cg, orbe |-> c.orbe, prev |-> priceCache]
        /\ published' = IF throws = "merge" THEN published
                        ELSE [at |-> now, cgFailed |-> c.cg.failed,
                              orbeFailed |-> c.orbe.failed,
                              cycle |-> Held(c)]
  /\ UNCHANGED <<now, sched, triggers, nStarted>>

\* A response body built from the snapshot read before the await.
PostResponseBodyStale(cache, seen, t) ==
  [success |-> TRUE, message |-> "Cache refreshed", data |-> seen,
   timestamp |-> t]

\* The body of the response of POST /api/prices/refresh, built at time t
\* from the cache as it is after the await; seen is the snapshot the
\* handler found when it was called.
PostResponseBody(cache, seen, t) ==
  [success |-> TRUE, message |-> "Cache refreshed", data |-> cache.data,
   timestamp |-> t]

\* Microtask: the caller resumes after await updatePriceCache().
\* startAutoUpdate arms setInterval, the interval callback ends, and the
\* POST handler sends its response.
Resume ==
  /\ microq # <<>>
  /\ Head(microq).k = "resume"
  /\ LET m == Head(microq)
     IN /\ sched' = IF m.caller = "startup" THEN "interval" ELSE sched
        /\ ev' = IF m.caller = "post"
                 THEN [op |-> "postResponse", busy |-> m.busy,
                       seen |-> m.seen, started |-> m.started,
                       threw |-> m.threw, status |-> 200,
                       cycle |-> m.cycle, cthrows |-> m.cthrows,
                       body |-> PostResponseBody(priceCache, m.seen, now)]
                 ELSE [op |-> "resumed", caller |-> m.caller,
                       threw |-> m.threw]
  /\ microq' = Tail(microq)
  /\ UNCHANGED <<priceCache, now, cycles, triggers, published, nStarted>>

\* Date.now() - lastUpdate without the test of lastUpdate.
CacheAgeNoTest(lastUpdate, t) == JsSub(Num(t), lastUpdate)

\* priceCache.lastUpdate ? Date.now() - priceCache.lastUpdate : null
CacheAge(lastUpdate, t) ==
  IF Truthy(lastUpdate) THEN JsSub(Num(t), lastUpdate) ELSE Null

\* GET /api/prices
GetPrices ==
  /\ microq = <<>>
  /\ sched # "boot"
  /\ ev' = [op |-> "getPrices", status |-> 200, at |-> now,
            body |-> [success |-> TRUE, data |-> priceCache.data,
                      meta |-> [lastUpdate |-> priceCache.lastUpdate,
                                cacheAge |->
                                  CacheAge(priceCache.lastUpdate, now),
                                tokensCount |->
                                  Cardinality(DOMAIN priceCache.data),
                                isUpdating |-> priceCache.isUpdating]]]
  /\ UNCHANGED <<priceCache, now, sched, cycles, microq, triggers, published,
                 nStarted>>

\* The letters, for String.prototype.toUpperCase.
Lower ==
  <<"a", "b", "c", "d", "e", "f", "g", "h", "i", "j", "k", "l", "m",
    "n", "o", "p", "q", "r", "s", "t", "u", "v", "w", "x", "y", "z">>

Upper ==
  <<"A", "B", "C", "D", "E", "F", "G", "H", "I", "J", "K", "L", "M",
    "N", "O", "P", "Q", "R", "S", "T", "U", "V", "W", "X", "Y", "Z">>

UpperChar(c) ==
  IF \E i \in 1..26 : Lower[i] = c
  THEN Upper[CHOOSE i \in 1..26 : Lower[i] = c]
  ELSE c

\* req.params.token.toUpperCase(), the token given as its characters.
RECURSIVE ToUpperCase(_)
ToUpperCase(chars) ==
  IF chars = <<>> THEN ""
  ELSE UpperChar(Head(chars)) \o ToUpperCase(Tail(chars))

\* The :token parameters tried.
Tokens ==
  { <<"b", "t", "c">>, <<"O", "r", "b", "e">>, <<"d", "o", "g", "e">> }

\* A 404 whose availableTokens is the list of the symbols the server knows
\* how to fetch.
TokenResponseStaticKeys(cache, token, t) ==
  IF token \notin DOMAIN cache.data
  THEN [status |-> 404,
        body |-> [success |-> FALSE,
                  error |-> "Token " \o token \o " not found",
                  availableTokens |->
                    STABLECOINS \cup DOMAIN COINGECKO_IDS \cup {"ORBE"}]]
  ELSE [status |-> 200,
        body |-> [success |-> TRUE, token |-> token,
                  data |-> cache.data[token],
                  meta |-> [lastUpdate |-> cache.lastUpdate,
                            cacheAge |-> JsSub(Num(t), cache.lastUpdate)]]]

\* The response of GET /api/prices/:token for the upper-cased token at time
\* t.  priceCache.data[token] is undefined for a missing key and an object,
\* which is truthy, for a present one.  Object.keys is given as a set.
TokenResponse(cache, token, t) ==
  IF token \notin DOMAIN cache.data
  THEN [status |-> 404,
        body |-> [success |-> FALSE,
                  error |-> "Token " \o token \o " not found",
                  availableTokens |-> DOMAIN cache.data]]
  ELSE [status |-> 200,
        body |-> [success |-> TRUE, token |-> token,
                  data |-> cache.data[token],
                  meta |-> [lastUpdate |-> cache.lastUpdate,
                            cacheAge |-> JsSub(Num(t), cache.lastUpdate)]]]

\* GET /api/prices/:token
GetToken(chars) ==
  /\ microq = <<>>
  /\ sched # "boot"
  /\ LET token == ToUpperCase(chars)
         r == TokenResponse(priceCache, token, now)
     IN ev' = [op |-> "getToken", chars |-> chars, token |-> token,
               at |-> now, status |-> r.status, body |-> r.body]
  /\ UNCHANGED <<priceCache, now, sched, cycles, microq, triggers, published,
                 nStarted>>

\* GET /health (process.uptime() is left out).
Health ==
  /\ microq = <<>>
  /\ sched # "boot"
  /\ ev' = [op |-> "health", status |-> 200, at |-> now,
            body |-> [status |-> "healthy", service |-> "prices-api",
                      lastUpdate |-> priceCache.lastUpdate,
                      tokensAvailable |-> Cardinality(DOMAIN priceCache.data),
                      timestamp |-> now]]
  /\ UNCHANGED <<priceCache, now, sched, cycles, microq, triggers, published,
                 nStarted>>

\* Time passes.
AdvanceTime ==
  /\ now < MaxTime
  /\ now' = now + 1
  /\ UNCHANGED <<priceCache, sched, cycles, microq, triggers, ev, published,
                 nStarted>>

Init ==
  /\ priceCache = [data |-> EmptyObj, lastUpdate |-> Null, isUpdating |-> FALSE]
  /\ now = 1
  /\ sched = "boot"
  /\ cycles = NoCycles
  /\ microq = <<>>
  /\ triggers = 0
  /\ ev = [op |-> "init"]
  /\ published = [at |-> 0, cgFailed |-> FALSE, orbeFailed |-> FALSE,
                  cycle |-> Held(NewCycle("", priceCache, 0))]
  /\ nStarted = 0

Next ==
  \/ Listen
  \/ IntervalTick
  \/ PostRefresh
  \/ \E id \in DOMAIN cycles : \E reply \in CoinGeckoReplies :
       CoinGeckoSettles(id, reply)
  \/ \E id \in DOMAIN cycles : \E reply \in DexReplies :
       OrbeSettles(id, reply)
  \/ \E throws \in {"none", "merge", "log"} : Join(throws)
  \/ Resume
  \/ GetPrices
  \/ \E chars \in Tokens : GetToken(chars)
  \/ Health
  \/ AdvanceTime

Spec == Init /\ [][Next]_vars

\* ------------------------------------------------------------- properties
\* The refresh cycles between the guard and the finally block.
InFlight == DOMAIN cycles

\* C1: at most one refresh cycle is between passing the isUpdating guard and
\* its final step, whatever the interleaving of the startup refresh, the
\* interval ticks and POST /api/prices/refresh; so no two cycles hold a
\* newData map that they will assign to priceCache.data.
AtMostOneCycle == Cardinality(InFlight) <= 1

\* A call made while a cycle was in flight was turned away and the cycle is
\* still the only one.
AtMostOneCycleWitness ==
  /\ ev.op = "call"
  /\ ev.busy
  /\ ~ev.started
  /\ Cardinality(InFlight) = 1

\* A step that is a call of updatePriceCache.
IsCall == triggers' = triggers + 1

\* C2: a call of updatePriceCache made while isUpdating is true changes
\* neither priceCache.data nor lastUpdate nor isUpdating, starts no cycle,
\* leaves the running cycle as it is, and its promise does not reject.
BusyCallIsNoOp ==
  [][(IsCall /\ priceCache.isUpdating) =>
       /\ priceCache' = priceCache
       /\ cycles' = cycles
       /\ microq' # <<>>
       /\ Head(microq').k = "resume"
       /\ ~Head(microq').started
       /\ ~Head(microq').threw]_vars

\* A call was turned away while the first adapter of the running cycle had
\* already returned; the flag of the running cycle is still set.
BusyCallWitness ==
  /\ ev.op = "call"
  /\ ev.busy
  /\ priceCache.isUpdating
  /\ \E id \in InFlight : cycles[id].cg.done /\ ~cycles[id].orbe.done

\* C3: isUpdating is true exactly when one refresh cycle has passed the guard
\* and has not run its final step; it is false at start and whenever no
\* cycle is in flight.
FlagIffCycle ==
  /\ priceCache.isUpdating <=> (Cardinality(InFlight) = 1)
  /\ (InFlight = {}) => ~priceCache.isUpdating

\* A cycle that threw has ended, no cycle is in flight and the flag is down,
\* after an earlier cycle had published.
FlagIffCycleWitness ==
  /\ ev.op = "finish"
  /\ ev.throws = "merge"
  /\ InFlight = {}
  /\ ~priceCache.isUpdating
  /\ priceCache.lastUpdate # Null

\* C4: every refresh cycle that passed the guard ends with isUpdating false,
\* also when a statement of the try block throws (before the await, before
\* the assignment of priceCache.data, or after it), and the promise of
\* updatePriceCache never rejects, so nothing propagates to the caller.
CycleEndsClean ==
  /\ (ev.op = "finish" /\ InFlight = {}) => ~priceCache.isUpdating
  /\ (ev.op = "call" /\ ~ev.busy /\ ev.throws) => ~priceCache.isUpdating
  /\ \A i \in 1..Len(microq) : ~microq[i].threw
  /\ (ev.op \in {"resumed", "postResponse"}) => ~ev.threw

\* A cycle whose merge threw has ended and its caller, the POST handler, is
\* about to resume.
CycleEndsCleanWitness ==
  /\ ev.op = "finish"
  /\ ev.throws = "merge"
  /\ ev.caller = "post"
  /\ microq # <<>>
  /\ Head(microq).k = "resume"

\* A cycle has just assigned priceCache.data; ev holds what it merged.
JustPublished == ev.op = "finish" /\ ev.throws # "merge"

\* The record that the merge order gives symbol sym from the results held
\* in ev: fetchOrbePrice over fetchCoinGeckoPrices over the fixed record.
ByPrecedence(sym) ==
  IF sym \in DOMAIN ev.orbe.res.obj THEN ev.orbe.res.obj[sym]
  ELSE IF sym \in DOMAIN ev.cg.res THEN ev.cg.res[sym]
  ELSE ev.fixed[sym]

\* C5: the snapshot a cycle publishes depends only on what the adapters
\* returned, not on which returned first: for every symbol it holds the
\* record of fetchOrbePrice if there is one, else the record of
\* fetchCoinGeckoPrices if there is one, else the fixed record.
MergeOrderFixed ==
  JustPublished =>
    \A sym \in STABLECOINS \cup DOMAIN ev.cg.res \cup DOMAIN ev.orbe.res.obj :
      /\ sym \in DOMAIN priceCache.data
      /\ priceCache.data[sym] = ByPrecedence(sym)

\* A cycle published after fetchOrbePrice returned before
\* fetchCoinGeckoPrices, both with a record.
MergeOrderWitness ==
  /\ JustPublished
  /\ ev.first = "orbe"
  /\ "BTC" \in DOMAIN ev.cg.res
  /\ ~ev.orbe.res.isNull
  /\ priceCache.data["ORBE"].source = "dexscreener"
  /\ priceCache.data["BTC"].source = "coingecko"

\* A price that is a number greater than zero.
ValidPositive(v) == v.t = "num" /\ v.n > 0

\* C6: every record of the snapshot has a valid positive price, whatever
\* the upstream bodies were.
SnapshotPricesPositive ==
  \A sym \in DOMAIN priceCache.data : ValidPositive(priceCache.data[sym].price)

\* C7: once a refresh cycle has published, the snapshot holds USDT, USDC,
\* BUSD and DAI with price 1, change24h 0 and source "fixed", whatever the
\* adapters returned.
StablecoinsFixed ==
  priceCache.lastUpdate # Null =>
    \A sym \in STABLECOINS :
      /\ sym \in DOMAIN priceCache.data
      /\ priceCache.data[sym].price = Num(1)
      /\ priceCache.data[sym].change24h = Num(0)
      /\ priceCache.data[sym].source = "fixed"

\* A cycle published with records of fetchCoinGeckoPrices while the upstream
\* call of fetchOrbePrice had failed.
StablecoinsFixedWitness ==
  /\ JustPublished
  /\ ev.orbe.failed
  /\ "ETH" \in DOMAIN ev.cg.res
  /\ priceCache.data["USDT"].source = "fixed"

\* C8: the snapshot is replaced as a whole: after a cycle has published, its
\* keys are the stablecoins and the symbols the adapters returned in that
\* cycle; a symbol of the previous snapshot that no adapter returned this
\* time is gone.
SnapshotReplaced ==
  JustPublished =>
    /\ DOMAIN priceCache.data =
         STABLECOINS \cup DOMAIN ev.cg.res \cup DOMAIN ev.orbe.res.obj
    /\ \A sym \in DOMAIN ev.prev.data :
         sym \notin STABLECOINS \cup DOMAIN ev.cg.res
                                \cup DOMAIN ev.orbe.res.obj
           => sym \notin DOMAIN priceCache.data

\* The previous snapshot had BTC and ETH; in this cycle the fetch
\* of fetchCoinGeckoPrices failed and fetchOrbePrice returned a record: the
\* snapshot is the stablecoins and ORBE.
SnapshotReplacedWitness ==
  /\ JustPublished
  /\ {"BTC", "ETH"} \subseteq DOMAIN ev.prev.data
  /\ ev.cg.failed
  /\ ~ev.orbe.res.isNull
  /\ DOMAIN priceCache.data = STABLECOINS \cup {"ORBE"}

\* C9: when both upstream calls of a cycle fail, the cycle still publishes:
\* lastUpdate is the time of completion (not earlier than the previous
\* one), the snapshot is the four stablecoins, and GET /api/prices answers
\* 200 with success true and the current snapshot.
BothFailStillPublishes ==
  /\ (published.at > 0 /\ published.cgFailed /\ published.orbeFailed) =>
       /\ priceCache.lastUpdate = Num(published.at)
       /\ DOMAIN priceCache.data = STABLECOINS
  /\ (JustPublished /\ ev.prev.lastUpdate # Null) =>
       ev.prev.lastUpdate.n <= priceCache.lastUpdate.n
  /\ ev.op = "getPrices" =>
       /\ ev.status = 200
       /\ ev.body.success
       /\ ev.body.data = priceCache.data
       /\ ev.body.meta.lastUpdate = priceCache.lastUpdate

\* GET /api/prices is answered after a cycle that completed at time 2 with
\* both upstream calls failed: lastUpdate is its completion time.
BothFailWitness ==
  /\ ev.op = "getPrices"
  /\ published.cgFailed
  /\ published.orbeFailed
  /\ published.at = 2
  /\ ev.body.meta.lastUpdate = Num(2)
  /\ ev.body.meta.tokensCount = 4
  /\ ev.body.meta.cacheAge = Num(0)

\* C10: POST /api/prices/refresh called while a refresh cycle is running
\* starts no cycle, answers while that cycle is still running, and its
\* response carries the snapshot priceCache.data held when it was called,
\* which is still the current one.
ForcedWhileBusy ==
  (ev.op = "postResponse" /\ ev.busy) =>
    /\ ~ev.started
    /\ ev.status = 200
    /\ ev.body.data = ev.seen
    /\ priceCache.data = ev.seen
    /\ priceCache.isUpdating
    /\ InFlight # {}

\* The POST handler answered with the snapshot of the startup refresh while
\* a cycle started by the interval was waiting for fetchOrbePrice.
ForcedWhileBusyWitness ==
  /\ ev.op = "postResponse"
  /\ ev.busy
  /\ "USDT" \in DOMAIN ev.body.data
  /\ \E id \in InFlight :
       /\ cycles[id].caller = "tick"
       /\ cycles[id].cg.done
       /\ ~cycles[id].orbe.done


\* The record that the merge order gives symbol sym from the results of the
\* cycle c.
CyclePrecedence(c, sym) ==
  IF sym \in DOMAIN c.orbe.res.obj THEN c.orbe.res.obj[sym]
  ELSE IF sym \in DOMAIN c.cg.res THEN c.cg.res[sym]
  ELSE c.newData[sym]

\* The symbols the cycle c has a record for.
CycleSymbols(c) ==
  STABLECOINS \cup DOMAIN c.cg.res \cup DOMAIN c.orbe.res.obj

\* C11: POST /api/prices/refresh called while no cycle is running answers
\* only after the cycle it started has ended with both adapters returned,
\* and, when that cycle published, the snapshot of the response is the one
\* that cycle built and is the current snapshot.
ForcedWhenIdle ==
  (ev.op = "postResponse" /\ ~ev.busy /\ ev.started) =>
    /\ ev.cycle.caller = "post"
    /\ ev.cycle.cg.done
    /\ ev.cycle.orbe.done
    /\ InFlight = {}
    /\ ~priceCache.isUpdating
    /\ ev.body.data = priceCache.data
    /\ ev.cthrows # "merge" =>
         /\ DOMAIN ev.body.data = CycleSymbols(ev.cycle)
         /\ \A sym \in CycleSymbols(ev.cycle) :
              ev.body.data[sym] = CyclePrecedence(ev.cycle, sym)

\* The POST handler answered with the snapshot of the cycle it started,
\* which has ORBE and differs from the snapshot it found.
ForcedWhenIdleWitness ==
  /\ ev.op = "postResponse"
  /\ ~ev.busy
  /\ ev.started
  /\ ev.cthrows = "none"
  /\ "USDT" \in DOMAIN ev.seen
  /\ "ORBE" \notin DOMAIN ev.seen
  /\ "ORBE" \in DOMAIN ev.body.data


\* C12: a call turned away by the guard is dropped, not deferred: a cycle
\* starts only in a step that is a call and that finds no cycle in flight,
\* a call that finds one in flight starts nothing, so no cycle starts when
\* a cycle ends (no deferred run, no retry of a failed cycle), and the
\* number of cycles started never exceeds the number of calls.
DroppedNotDeferred ==
  /\ [](nStarted <= triggers)
  /\ [][(InFlight' \ InFlight # {}) =>
          (IsCall /\ InFlight = {} /\ nStarted' = nStarted + 1)]_vars
  /\ [][(IsCall /\ InFlight # {}) =>
          (nStarted' = nStarted /\ InFlight' = InFlight)]_vars
  /\ [][(InFlight \ InFlight' # {}) =>
          (InFlight' \subseteq InFlight /\ nStarted' = nStarted)]_vars

\* An interval tick was turned away while a cycle started by the POST
\* handler was running: three calls, two cycles.
DroppedWitness ==
  /\ ev.op = "call"
  /\ ev.caller = "tick"
  /\ ev.busy
  /\ ~ev.started
  /\ triggers = 3
  /\ nStarted = 2
  /\ \E id \in InFlight : cycles[id].caller = "post"


\* C13: the adapters never raise: whatever the upstream reply (rejected
\* fetch, non-2xx status, body that is not JSON, null body, any JSON body),
\* the promise of each adapter is fulfilled, with {} or null after a failure
\* and else with records of its own symbols only; a failure of one adapter
\* neither aborts the cycle nor keeps the records of the other adapter out
\* of the published snapshot.
AdaptersNeverRaise ==
  /\ \A id \in InFlight :
       /\ ~cycles[id].cg.raised
       /\ ~cycles[id].orbe.raised
       /\ cycles[id].cg.failed => cycles[id].cg.res = EmptyObj
       /\ cycles[id].orbe.failed => cycles[id].orbe.res = OrbeNull
       /\ DOMAIN cycles[id].cg.res \subseteq DOMAIN COINGECKO_IDS
       /\ DOMAIN cycles[id].orbe.res.obj \subseteq {"ORBE"}
  /\ ev.op = "finish" => (~ev.aborted /\ ev.cg.done /\ ev.orbe.done)
  /\ (ev.op = "finish" /\ ev.throws = "none") =>
       /\ priceCache.lastUpdate = Num(ev.at)
       /\ ev.cg.failed =>
            \A sym \in DOMAIN ev.orbe.res.obj :
              /\ sym \in DOMAIN priceCache.data
              /\ priceCache.data[sym] = ev.orbe.res.obj[sym]
       /\ ev.orbe.failed =>
            \A sym \in DOMAIN ev.cg.res :
              /\ sym \in DOMAIN priceCache.data
              /\ priceCache.data[sym] = ev.cg.res[sym]

\* A cycle published the ORBE record although the fetch of
\* fetchCoinGeckoPrices had failed before fetchOrbePrice returned.
AdaptersNeverRaiseWitness ==
  /\ ev.op = "finish"
  /\ ev.throws = "none"
  /\ ev.cg.failed
  /\ ev.first = "cg"
  /\ "ORBE" \in DOMAIN priceCache.data


\* C14: GET /api/prices/:token answers 200 with the record of the symbol
\* when the upper-cased token is a key of the current snapshot, and else a
\* structured 404 whose availableTokens is exactly the key set of the
\* current snapshot; it never answers anything else.
LookupAnswers ==
  ev.op = "getToken" =>
    /\ ev.status \in {200, 404}
    /\ ev.token \in DOMAIN priceCache.data =>
         /\ ev.status = 200
         /\ ev.body.success
         /\ ev.body.token = ev.token
         /\ ev.body.data = priceCache.data[ev.token]
    /\ ev.token \notin DOMAIN priceCache.data =>
         /\ ev.status = 404
         /\ ~ev.body.success
         /\ ev.body.availableTokens = DOMAIN priceCache.data

\* The lookup of "doge" was answered 404 with the keys of a snapshot that
\* has the stablecoins and ORBE but no CoinGecko symbol.
LookupWitness ==
  /\ ev.op = "getToken"
  /\ ev.token = "DOGE"
  /\ ev.status = 404
  /\ ev.body.availableTokens = STABLECOINS \cup {"ORBE"}

\* C15: cacheAge of a read is Date.now() - lastUpdate with both taken at
\* the time of the request; before the first refresh has published, GET
\* /api/prices reports it as null and GET /api/prices/:token, which can then
\* only answer 404, reports none.
CacheAgeFresh ==
  /\ ev.op = "getPrices" =>
       /\ ev.body.meta.lastUpdate = priceCache.lastUpdate
       /\ published.at = 0 => ev.body.meta.cacheAge = Null
       /\ published.at > 0 =>
            ev.body.meta.cacheAge = Num(ev.at - priceCache.lastUpdate.n)
  /\ (ev.op = "getToken" /\ ev.status = 200) =>
       /\ published.at > 0
       /\ ev.body.meta.lastUpdate = priceCache.lastUpdate
       /\ ev.body.meta.cacheAge = Num(ev.at - priceCache.lastUpdate.n)
  /\ (ev.op = "getToken" /\ published.at = 0) =>
       /\ ev.status = 404
       /\ "meta" \notin DOMAIN ev.body

\* GET /api/prices at time 2 reported cacheAge 1 for a snapshot published at
\* time 1.
CacheAgeWitness ==
  /\ ev.op = "getPrices"
  /\ ev.at = 2
  /\ priceCache.lastUpdate = Num(1)
  /\ ev.body.meta.cacheAge = Num(1)


\* C16: within a cycle nothing is published before both adapters have
\* returned, successfully or not: priceCache.data and lastUpdate change only
\* in the step that ends a cycle whose two adapters are done, a cycle ends
\* only then, and while a cycle is in flight the cache still holds the
\* snapshot and the lastUpdate found when the cycle was called.
NoEarlyPublication ==
  /\ [][(priceCache'.data # priceCache.data
           \/ priceCache'.lastUpdate # priceCache.lastUpdate) =>
          \E id \in InFlight :
            /\ id \notin InFlight'
            /\ cycles[id].cg.done
            /\ cycles[id].orbe.done]_vars
  /\ [][\A id \in InFlight \ InFlight' :
          cycles[id].cg.done /\ cycles[id].orbe.done]_vars
  /\ [](\A id \in InFlight :
          /\ priceCache.data = cycles[id].seen
          /\ priceCache.lastUpdate = cycles[id].seenUpdate)

\* GET /api/prices was answered with the previous snapshot while the running
\* cycle had a failed fetchOrbePrice and was waiting for
\* fetchCoinGeckoPrices.
NoEarlyPublicationWitness ==
  /\ ev.op = "getPrices"
  /\ "USDT" \in DOMAIN ev.body.data
  /\ \E id \in InFlight :
       /\ cycles[id].orbe.done
       /\ cycles[id].orbe.failed
       /\ ~cycles[id].cg.done
       /\ ev.body.data = cycles[id].seen
       /\ ev.body.meta.lastUpdate = cycles[id].seenUpdate


\* C17: readers never see a partly built map: the cache holds the initial
\* empty map with lastUpdate null, or the complete merge of the last cycle
\* that published together with that cycle's lastUpdate, and what GET
\* /health, GET /api/prices and GET /api/prices/:token report is taken from
\* that one pair.
WholeSnapshots ==
  /\ published.at = 0 =>
       (priceCache.data = EmptyObj /\ priceCache.lastUpdate = Null)
  /\ published.at > 0 =>
       /\ priceCache.lastUpdate = Num(published.at)
       /\ DOMAIN priceCache.data = CycleSymbols(published.cycle)
       /\ \A sym \in CycleSymbols(published.cycle) :
            priceCache.data[sym] = CyclePrecedence(published.cycle, sym)
  /\ ev.op = "getPrices" =>
       /\ ev.body.data = priceCache.data
       /\ ev.body.meta.lastUpdate = priceCache.lastUpdate
       /\ ev.body.meta.tokensCount = Cardinality(DOMAIN priceCache.data)
  /\ ev.op = "health" =>
       /\ ev.body.lastUpdate = priceCache.lastUpdate
       /\ ev.body.tokensAvailable = Cardinality(DOMAIN priceCache.data)
  /\ (ev.op = "getToken" /\ ev.status = 200) =>
       /\ ev.body.data = priceCache.data[ev.token]
       /\ ev.body.meta.lastUpdate = priceCache.lastUpdate

\* GET /health reported the four tokens and the lastUpdate of the published
\* snapshot while the running cycle already held records of
\* fetchCoinGeckoPrices.
WholeSnapshotsWitness ==
  /\ ev.op = "health"
  /\ published.at > 0
  /\ ev.body.tokensAvailable = 4
  /\ ev.body.lastUpdate = Num(published.at)
  /\ \E id \in InFlight :
       /\ cycles[id].cg.done
       /\ "BTC" \in DOMAIN cycles[id].cg.res

\* C18: a cycle in which a statement throws before the assignment of
\* priceCache.data leaves the snapshot and lastUpdate as they were when it
\* was called and only clears isUpdating; the same holds when the statement
\* throws before the await.
FailedCycleLeavesState ==
  /\ (ev.op = "finish" /\ ev.throws = "merge") =>
       /\ priceCache.data = ev.seen
       /\ priceCache.lastUpdate = ev.seenUpdate
       /\ priceCache = [ev.prev EXCEPT !.isUpdating = FALSE]
  /\ (ev.op = "call" /\ ~ev.busy /\ ev.throws) =>
       priceCache = [ev.before EXCEPT !.isUpdating = FALSE]

\* A cycle that held an ORBE record threw before the assignment, later than
\* the last publication: the snapshot has no ORBE and lastUpdate is old.
FailedCycleWitness ==
  /\ ev.op = "finish"
  /\ ev.throws = "merge"
  /\ ~ev.orbe.res.isNull
  /\ "USDT" \in DOMAIN priceCache.data
  /\ "ORBE" \notin DOMAIN priceCache.data
  /\ priceCache.lastUpdate = Num(1)
  /\ ev.at = 2

\* C20: lastUpdate is null exactly when no cycle has published, and then
\* the snapshot is empty; a snapshot that is not empty has a numeric
\* lastUpdate, and every 200 of GET /api/prices/:token carries a numeric
\* lastUpdate and a numeric cacheAge.
LastUpdateIffPublished ==
  /\ (priceCache.lastUpdate = Null) <=> (published.at = 0)
  /\ priceCache.lastUpdate = Null => priceCache.data = EmptyObj
  /\ priceCache.data # EmptyObj =>
       (priceCache.lastUpdate.t = "num" /\ priceCache.lastUpdate.n >= 1)
  /\ (ev.op = "getToken" /\ ev.status = 200) =>
       /\ ev.body.meta.lastUpdate.t = "num"
       /\ ev.body.meta.cacheAge.t = "num"
       /\ ev.body.meta.cacheAge.n >= 0

\* The lookup of "Orbe" was answered 200 with lastUpdate 2.
LastUpdateWitness ==
  /\ ev.op = "getToken"
  /\ ev.token = "ORBE"
  /\ ev.status = 200
  /\ ev.body.meta.lastUpdate = Num(2)
  /\ ev.body.meta.cacheAge = Num(0)


\* ------------------------------------------------------------ progress
\* app.listen callback, counted or not.
LiveListen ==
  /\ sched = "boot"
  /\ sched' = "starting"
  /\ \E throws \in BOOLEAN : Call("startup", throws)

\* The setInterval callback, every CACHE_DURATION for as long as the process
\* runs.
LiveTick ==
  /\ sched = "interval"
  /\ sched' = sched
  /\ \E throws \in BOOLEAN : Call("tick", throws)

\* POST /api/prices/refresh, as often as clients send it.
LivePost ==
  /\ sched # "boot"
  /\ sched' = sched
  /\ \E throws \in BOOLEAN : Call("post", throws)

LiveCoinGeckoSettles(id) ==
  \E reply \in CoinGeckoReplies : CoinGeckoSettles(id, reply)

LiveOrbeSettles(id) ==
  \E reply \in DexReplies : OrbeSettles(id, reply)

LiveJoin == \E throws \in {"none", "merge", "log"} : Join(throws)

\* No branch of the code reads the clock (Date.now() only goes into the
\* records and into lastUpdate), so the clock stands still here.
LiveNext ==
  \/ LiveListen
  \/ LiveTick
  \/ LivePost
  \/ \E id \in DOMAIN cycles : LiveCoinGeckoSettles(id)
  \/ \E id \in DOMAIN cycles : LiveOrbeSettles(id)
  \/ LiveJoin
  \/ Resume
  \/ GetPrices
  \/ \E chars \in Tokens : GetToken(chars)
  \/ Health

\* The event loop runs every pending callback: the listen callback, each
\* interval timer, and the settlement of each upstream call, which has a
\* timeout of 4000 ms; the microtask queue is drained after every callback.
\* Requests are sent or not as clients please.
LiveFairness ==
  /\ SF_vars(LiveListen)
  /\ SF_vars(LiveTick)
  /\ SF_vars(\E id \in DOMAIN cycles : LiveCoinGeckoSettles(id))
  /\ SF_vars(\E id \in DOMAIN cycles : LiveOrbeSettles(id))
  /\ WF_vars(LiveJoin)
  /\ WF_vars(Resume)

LiveSpec == Init /\ [][LiveNext]_vars /\ LiveFairness

\* The last step was a call by the interval timer that found the flag set.
RejectedTick == ev.op = "call" /\ ev.caller = "tick" /\ ev.busy

\* The last step was a call by the interval timer that passed the guard.
TickPasses == ev.op = "call" /\ ev.caller = "tick" /\ ~ev.busy

\* The last step was a call, by any caller, that passed the guard.
CallPasses == ev.op = "call" /\ ~ev.busy

\* Every cycle that passes the guard ends, and the flag returns to false.
CyclesEnd ==
  /\ (InFlight # {}) ~> (InFlight = {})
  /\ priceCache.isUpdating ~> ~priceCache.isUpdating

\* C19 as stated: every cycle ends and the flag returns to false, and after
\* a rejected tick a later tick passes the guard.
RejectedTickRetried ==
  /\ CyclesEnd
  /\ RejectedTick ~> TickPasses

\* C19: every upstream call returning, every cycle that passes the guard
\* ends and isUpdating returns to false, so the guard is clear again and
\* again; after a rejected tick a call passes the guard again, the call of
\* a later tick or that of a POST /api/prices/refresh, and a tick that finds
\* the flag clear is never rejected.
GuardClearsAgain ==
  /\ CyclesEnd
  /\ []<>(~priceCache.isUpdating /\ InFlight = {})
  /\ RejectedTick ~> CallPasses
  /\ [][(ev'.op = "call" /\ ev' # ev /\ ~priceCache.isUpdating)
          => ~ev'.busy]_vars

\* The interval timer was rejected while the cycle of a POST request was
\* awaiting its upstream calls.
GuardClearsWitness ==
  /\ RejectedTick
  /\ priceCache.isUpdating
  /\ \E id \in InFlight : cycles[id].caller = "post"

====
